---- MODULE Spec2Model ----
(***************************************************************************)
(* Heartbeat / availability-aware replication simulator                    *)
(* (src/HAFwithGUITesting.py).                                             *)
(*                                                                         *)
(* Threads: one Node thread per node id, one Coordinator thread, and the   *)
(* Tk main thread running the monitor() timer callback.  Time is the       *)
(* integer clock `now` (one unit = one second of time.time()).  A thread   *)
(* that can run does so before the clock advances (computation takes no    *)
(* time); sleep(d), Queue.get(timeout=d) and root.after(d, f) wait for the *)
(* clock.  time.time() is taken to be monotonic and positive (it is the    *)
(* number of seconds since the epoch).                                      *)
(***************************************************************************)
EXTENDS Integers, Sequences, FiniteSets, TLC

\* ---------------------------------------------------------------- bounds
\* Largest node count a configuration may name (num_nodes = 4 in __main__).
MaxNodes == 2
\* Largest replication factor a configuration may name (default 2).
MaxRF == 3
\* Heartbeats the nodes may put on the queue, all together; a node that
\* finds the bound reached stays silent for that cycle.
MaxHeartbeats == 4
\* Silent cycles the nodes may take, all together, while heartbeats remain.
MaxSilent == 1
\* Value of time.time() when the threads are started.
StartTime == 1
\* Largest node count of the configurations checked for liveness.
LiveNodes == 1

\* ------------------------------------------------------- program constants
\* while ... (time.time() - start_time < 20)
RunBudget == 20
\* self.heartbeat_queue.get(timeout=1)
PollTimeout == 1
\* if latency < 10
LatencyCeiling == 10
\* time.sleep(5) after an assignment
Cooldown == 5
\* time.sleep(2) when the node stays silent
SilentPause == 2
\* time.sleep(random.uniform(1, 2)): the shortest and the longest sleep
MinSleep == 1
MaxSleep == 2
\* root.after(1000, monitor): 1000 ms
MonitorPeriod == 1
\* replication_factor=2, the default of Coordinator.__init__
DefaultRF == 2

\* round(random.uniform(0.1, 1.0), 2) in hundredths: a sample of 10..100
ScoreValues == {50, 90}
\* self.memory_state
memory_state == "Replication Data"
\* Python's None, for a field that otherwise holds a string
None == "None"
\* An optional value that is not a string: <<>> is None, <<x>> is x
Nothing == <<>>
Some(x) == <<x>>

VARIABLES
    num_nodes,            \* Coordinator.num_nodes, and the number of Node threads
    replication_factor,   \* Coordinator.replication_factor
    now,                  \* time.time()
    heartbeat_queue,      \* Queue(): sequence of [id, score, ts]
    node_running,         \* Node.running, per node
    node_pc,              \* position of each Node thread in run()
    node_wake,            \* end of the Node thread's current sleep
    replicated_memory,    \* Node.replicated_memory, per node
    emitted,              \* heartbeats put so far, by all nodes
    silences,             \* silent cycles taken so far while heartbeats remained
    node_stops,           \* calls of Node.stop(), per node
    coord_running,        \* Coordinator.running
    coord_pc,             \* position of the Coordinator thread in run()
    coord_wake,           \* end of the current get(timeout) or sleep
    start_time,           \* local start_time of Coordinator.run
    node_scores,          \* Coordinator.node_scores: dict as sequence of <<id, score>>, in insertion order
    total_heartbeats,
    replication_count,
    latency_log,
    execution_times,
    last_assignment_time,
    assignments_done,
    last_assign,          \* history: scores and targets of the latest assign_replication_task
    stop_called,          \* history: Coordinator.stop() has been called
    late_iterations,      \* history: heartbeats consumed after stop() or after the budget elapsed
    mon_pc,               \* position of the main thread in monitor()
    mon_wake,             \* time at which the pending root.after timer fires
    mon_idx,              \* index of the for loops over nodes.values()
    report,               \* what report_metrics printed (Nothing before it ran)
    report_count,         \* calls of report_metrics
    sent,                 \* history: <<id, ts>> of every heartbeat put on the queue, in put order
    late_emits,           \* history: heartbeats a node put after its stop() was called, per node
    consumed,             \* history: id and ts of every heartbeat get() returned, and whether
                          \* that iteration called assign_replication_task
    gui_calls,            \* the gui_callback calls of the latest loop iteration that
                          \* consumed a heartbeat: their arguments, in call order
    gui_call_count        \* history: gui_callback calls so far, without and with targets

vars == <<num_nodes, replication_factor, now, heartbeat_queue, node_running, node_pc,
          node_wake, replicated_memory, emitted, silences, node_stops, coord_running, coord_pc,
          coord_wake, start_time, node_scores, total_heartbeats, replication_count,
          latency_log, execution_times, last_assignment_time, assignments_done,
          last_assign, stop_called, late_iterations, mon_pc, mon_wake, mon_idx,
          report, report_count, sent, late_emits, consumed, gui_calls,
          gui_call_count>>

nodeVars == <<node_running, node_pc, node_wake, emitted, silences, sent, late_emits>>
coordVars == <<coord_running, coord_pc, coord_wake, start_time, node_scores,
               total_heartbeats, replication_count, latency_log, execution_times,
               last_assignment_time, assignments_done, last_assign, late_iterations,
               consumed, gui_calls, gui_call_count>>
monVars == <<mon_pc, mon_wake, mon_idx, report, report_count, node_stops>>
configVars == <<num_nodes, replication_factor>>

\* node_ids: the keys of `nodes`, in dict order
Nodes == 1..num_nodes

\* --------------------------------------------------------- pure functions
RECURSIVE Sum(_)
Sum(s) == IF s = <<>> THEN 0 ELSE Head(s) + Sum(Tail(s))

\* dict keys of node_scores
Keys(items) == {items[i][1] : i \in 1..Len(items)}

\* node_scores.get(id): the score stored for id (id is a key)
ScoreOf(items, id) == LET i == CHOOSE j \in 1..Len(items) : items[j][1] = id IN items[i][2]

\* Mutant of DictSet: the scores are kept as a list of pairs, every heartbeat appended.
DictSetAppendOnly(items, id, score) == Append(items, <<id, score>>)

\* self.node_scores[node_id] = score: overwrite in place, or insert at the end
DictSet(items, id, score) ==
    IF id \in Keys(items)
    THEN [i \in 1..Len(items) |-> IF items[i][1] = id THEN <<id, score>> ELSE items[i]]
    ELSE Append(items, <<id, score>>)

\* place x in a list sorted by score descending, after every entry whose score
\* is not smaller (a stable sort keeps equal keys in their original order)
RECURSIVE InsertDesc(_, _)
InsertDesc(sorted, x) ==
    IF sorted = <<>> THEN <<x>>
    ELSE IF Head(sorted)[2] >= x[2] THEN <<Head(sorted)>> \o InsertDesc(Tail(sorted), x)
    ELSE <<x>> \o sorted

RECURSIVE SortedFrom(_, _)
SortedFrom(acc, items) ==
    IF items = <<>> THEN acc ELSE SortedFrom(InsertDesc(acc, Head(items)), Tail(items))

\* Mutant of sorted_nodes: reverse=True forgotten, the sort is ascending.
RECURSIVE InsertAsc(_, _)
InsertAsc(sorted, x) ==
    IF sorted = <<>> THEN <<x>>
    ELSE IF Head(sorted)[2] <= x[2] THEN <<Head(sorted)>> \o InsertAsc(Tail(sorted), x)
    ELSE <<x>> \o sorted

RECURSIVE SortedAscFrom(_, _)
SortedAscFrom(acc, items) ==
    IF items = <<>> THEN acc ELSE SortedAscFrom(InsertAsc(acc, Head(items)), Tail(items))

sorted_nodes_ascending(items) == SortedAscFrom(<<>>, items)

\* sorted(self.node_scores.items(), key=lambda x: x[1], reverse=True)
sorted_nodes(items) == SortedFrom(<<>>, items)

\* s[:k] of a Python list
Slice(s, k) ==
    LET n == IF k >= 0 THEN (IF k < Len(s) THEN k ELSE Len(s))
             ELSE (IF Len(s) + k > 0 THEN Len(s) + k ELSE 0)
    IN SubSeq(s, 1, n)

\* targets = [node_id for node_id, _ in sorted_nodes[:self.replication_factor]]
Targets(items, rf) ==
    LET top == Slice(sorted_nodes(items), rf) IN [i \in 1..Len(top) |-> top[i][1]]

\* Mutant of RoundComplete: the round counts as complete one node early.
RoundCompleteOneEarly(items, n) == Len(items) + 1 >= n

\* Mutant of RoundComplete: `>` written for `==`.
RoundCompleteStrict(items, n) == Len(items) > n

\* len(self.node_scores) == self.num_nodes
RoundComplete(items, n) == Len(items) = n

\* Mutant of LatencyAccepted: `<=` written for `<`.
LatencyAcceptedInclusive(latency) == latency <= LatencyCeiling

\* if latency < 10
LatencyAccepted(latency) == latency < LatencyCeiling

\* truth value of a float-or-None: `if self.last_assignment_time:`
Truthy(x) == x # Nothing /\ x[1] # 0

\* Mutant of IncrementCounts: `= 1` written for `+= 1`.
RECURSIVE SetCountsToOne(_, _)
SetCountsToOne(counts, targets) ==
    IF targets = <<>> THEN counts
    ELSE IF Head(targets) \in DOMAIN counts
         THEN SetCountsToOne([counts EXCEPT ![Head(targets)] = 1], Tail(targets))
         ELSE SetCountsToOne(counts, Tail(targets))

\* for node_id in targets: if node_id in self.node_threads:
\*     self.replication_count[node_id] += 1
RECURSIVE IncrementCounts(_, _)
IncrementCounts(counts, targets) ==
    IF targets = <<>> THEN counts
    ELSE IF Head(targets) \in DOMAIN counts
         THEN IncrementCounts([counts EXCEPT ![Head(targets)] = @ + 1], Tail(targets))
         ELSE IncrementCounts(counts, Tail(targets))

\* Mutant of receive_replication: the payload is stored only while nothing is held.
ReceiveKeepsFirst(old, memory) == IF old = None THEN memory ELSE old

\* Node.receive_replication(memory): self.replicated_memory = memory
\* (old is the value held before the call)
receive_replication(old, memory) == memory

\* Mutant of Deliver: the loop over the targets stops after the first delivery.
DeliverToFirstOnly(mem, targets, payload) ==
    IF targets # <<>> /\ Head(targets) \in DOMAIN mem
    THEN [mem EXCEPT ![Head(targets)] = receive_replication(@, payload)]
    ELSE mem

\* for node_id in targets: if node_id in self.node_threads:
\*     self.node_threads[node_id].receive_replication(self.memory_state)
RECURSIVE Deliver(_, _, _)
Deliver(mem, targets, payload) ==
    IF targets = <<>> THEN mem
    ELSE IF Head(targets) \in DOMAIN mem
         THEN Deliver([mem EXCEPT ![Head(targets)] = receive_replication(@, payload)],
                      Tail(targets), payload)
         ELSE Deliver(mem, Tail(targets), payload)

\* Mutant of QueuePut: the item is put at the head of the queue (a LIFO queue).
QueuePutFront(q, item) == <<item>> \o q

\* self.heartbeat_queue.put(item) on a queue.Queue
QueuePut(q, item) == Append(q, item)

\* The first argument of gui_callback is self.node_scores itself: the observer
\* holds a reference to the Coordinator's dict, not a copy of it.
ScoresRef == "node_scores"

\* what a holder of the reference reads: the dict as it is now
Deref(ref) == node_scores

\* self.gui_callback(self.node_scores, None, self.node_threads)
\* (gui_callback is set, as in __main__)
NotifyHeartbeat == <<[scores |-> ScoresRef, targets |-> Nothing]>>

\* Mutant of NotifyAssignment: the callback after the assignment is left out.
NotifyAssignmentOmitted(targets) == <<>>

\* self.gui_callback(self.node_scores, targets, self.node_threads)
NotifyAssignment(targets) == <<[scores |-> ScoresRef, targets |-> Some(targets)]>>

\* the calls counted by kind: those without targets, those with targets
CountCalls(count, calls) ==
    [none |-> count.none + Cardinality({i \in 1..Len(calls) : calls[i].targets = Nothing}),
     targets |-> count.targets + Cardinality({i \in 1..Len(calls) : calls[i].targets # Nothing})]

\* Mutant of LoopCondition: the loop tests the budget only, not self.running.
LoopConditionBudgetOnly(running, elapsed) == elapsed < RunBudget

\* while self.running and (time.time() - start_time < 20)
LoopCondition(running, elapsed) == running /\ elapsed < RunBudget

\* a / b in Python: the quotient (kept as the pair of its terms), or the exception
Divide(a, b) == IF b = 0 THEN <<"ZeroDivisionError">> ELSE <<"value", a, b>>

\* Mutant of ReportMetrics: the throughput line is guarded by assignments_done.
ReportMetricsGuardedByCount(total, counts, latencies, intervals, done) ==
    [total_heartbeats |-> total,
     replication_count |-> counts,
     avg_latency |-> IF latencies # <<>> THEN Divide(Sum(latencies), Len(latencies)) ELSE <<"none">>,
     avg_exec |-> IF intervals # <<>> THEN Divide(Sum(intervals), Len(intervals)) ELSE <<"none">>,
     throughput |-> IF done # 0 THEN Divide(done, Sum(intervals)) ELSE <<"none">>]

\* Coordinator.report_metrics: what is printed; a line that is not printed is <<"none">>
ReportMetrics(total, counts, latencies, intervals, done) ==
    [total_heartbeats |-> total,
     replication_count |-> counts,
     avg_latency |-> IF latencies # <<>> THEN Divide(Sum(latencies), Len(latencies)) ELSE <<"none">>,
     avg_exec |-> IF intervals # <<>> THEN Divide(Sum(intervals), Len(intervals)) ELSE <<"none">>,
     throughput |-> IF intervals # <<>> THEN Divide(done, Sum(intervals)) ELSE <<"none">>]

\* ------------------------------------------------------------------ Init
Init ==
    /\ num_nodes \in 0..MaxNodes
    /\ replication_factor \in 0..MaxRF
    /\ now = StartTime
    /\ heartbeat_queue = <<>>
    /\ node_running = [n \in Nodes |-> TRUE]
    /\ node_pc = [n \in Nodes |-> "top"]
    /\ node_wake = [n \in Nodes |-> 0]
    /\ replicated_memory = [n \in Nodes |-> None]
    /\ emitted = 0
    /\ silences = 0
    /\ node_stops = [n \in Nodes |-> 0]
    /\ coord_running = TRUE
    /\ coord_pc = "init"
    /\ coord_wake = 0
    /\ start_time = 0
    /\ node_scores = <<>>
    /\ total_heartbeats = 0
    /\ replication_count = [n \in Nodes |-> 0]
    /\ latency_log = <<>>
    /\ execution_times = <<>>
    /\ last_assignment_time = Nothing
    /\ assignments_done = 0
    /\ last_assign = Nothing
    /\ stop_called = FALSE
    /\ late_iterations = 0
    /\ mon_pc = "timer"
    /\ mon_wake = StartTime + MonitorPeriod
    /\ mon_idx = 0
    /\ report = Nothing
    /\ report_count = 0
    /\ sent = <<>>
    /\ late_emits = [n \in Nodes |-> 0]
    /\ consumed = <<>>
    /\ gui_calls = <<>>
    /\ gui_call_count = [none |-> 0, targets |-> 0]

\* ------------------------------------------------------------ Node thread
\* Mutant of NodeLoopTest: `while True:`, the running flag is not tested.
NodeLoopTestIgnoresStop(n) ==
    /\ \/ node_pc[n] = "top"
       \/ node_pc[n] = "sleep" /\ now >= node_wake[n]
    /\ node_pc' = [node_pc EXCEPT ![n] = "body"]
    /\ node_wake' = [node_wake EXCEPT ![n] = 0]
    /\ UNCHANGED <<configVars, now, heartbeat_queue, node_running, replicated_memory,
                   emitted, silences, sent, late_emits, coordVars, stop_called, monVars>>

\* while self.running: (entered from start(), or after a sleep has returned)
NodeLoopTest(n) ==
    /\ \/ node_pc[n] = "top"
       \/ node_pc[n] = "sleep" /\ now >= node_wake[n]
    /\ node_pc' = [node_pc EXCEPT ![n] = IF node_running[n] THEN "body" ELSE "done"]
    /\ node_wake' = [node_wake EXCEPT ![n] = 0]
    /\ UNCHANGED <<configVars, now, heartbeat_queue, node_running, replicated_memory,
                   emitted, silences, sent, late_emits, coordVars, stop_called, monVars>>

\* if random.random() < 0.05: time.sleep(2); continue
NodeSilent(n) ==
    /\ node_pc[n] = "body"
    /\ emitted = MaxHeartbeats \/ silences < MaxSilent
    /\ silences' = IF emitted = MaxHeartbeats THEN silences ELSE silences + 1
    /\ node_pc' = [node_pc EXCEPT ![n] = "sleep"]
    /\ node_wake' = [node_wake EXCEPT ![n] = now + SilentPause]
    /\ UNCHANGED <<configVars, now, heartbeat_queue, node_running, replicated_memory,
                   emitted, sent, late_emits, coordVars, stop_called, monVars>>

\* availability = ...; timestamp = time.time(); put(...); time.sleep(random.uniform(1, 2))
NodeEmit(n) ==
    /\ node_pc[n] = "body"
    /\ emitted < MaxHeartbeats
    /\ \E availability \in ScoreValues, d \in MinSleep..MaxSleep :
         LET hb == [id |-> n, score |-> availability, ts |-> now]
         IN /\ heartbeat_queue' = QueuePut(heartbeat_queue, hb)
            /\ sent' = Append(sent, <<hb.id, hb.ts>>)
            /\ node_wake' = [node_wake EXCEPT ![n] = now + d]
    /\ node_pc' = [node_pc EXCEPT ![n] = "sleep"]
    /\ emitted' = emitted + 1
    /\ late_emits' = [late_emits EXCEPT ![n] = IF node_running[n] THEN @ ELSE @ + 1]
    /\ UNCHANGED <<configVars, now, node_running, replicated_memory, silences, coordVars,
                   stop_called, monVars>>

NodeStep(n) == NodeLoopTest(n) \/ NodeSilent(n) \/ NodeEmit(n)

\* ------------------------------------------------------- Coordinator thread
\* start_time = time.time()
CoordinatorStart ==
    /\ coord_pc = "init"
    /\ coord_pc' = "top"
    /\ start_time' = now
    /\ UNCHANGED <<configVars, now, heartbeat_queue, nodeVars, replicated_memory,
                   coord_running, coord_wake, node_scores, total_heartbeats,
                   replication_count, latency_log, execution_times, last_assignment_time,
                   assignments_done, last_assign, late_iterations, consumed, gui_calls,
                   gui_call_count, stop_called, monVars>>

\* while self.running and (time.time() - start_time < 20): ... ; self.running = False
CoordinatorLoopTest ==
    /\ coord_pc = "top"
    /\ IF LoopCondition(coord_running, now - start_time)
       THEN /\ coord_pc' = "get"
            /\ coord_wake' = now + PollTimeout
            /\ UNCHANGED coord_running
       ELSE /\ coord_pc' = "done"
            /\ coord_running' = FALSE
            /\ UNCHANGED coord_wake
    /\ UNCHANGED <<configVars, now, heartbeat_queue, nodeVars, replicated_memory,
                   start_time, node_scores, total_heartbeats, replication_count,
                   latency_log, execution_times, last_assignment_time,
                   assignments_done, last_assign, late_iterations, consumed, gui_calls,
                   gui_call_count, stop_called, monVars>>

\* get(timeout=1) returns a heartbeat: lines 63-77, with assign_replication_task
\* (lines 82-103) when the round is complete
CoordinatorReceive ==
    /\ coord_pc = "get"
    /\ heartbeat_queue # <<>>
    /\ LET hb == Head(heartbeat_queue)
           scores == DictSet(node_scores, hb.id, hb.score)
           latency == now - hb.ts
           targets == Targets(scores, replication_factor)
       IN /\ heartbeat_queue' = Tail(heartbeat_queue)
          /\ node_scores' = scores
          /\ total_heartbeats' = total_heartbeats + 1
          /\ latency_log' = IF LatencyAccepted(latency)
                            THEN Append(latency_log, latency) ELSE latency_log
          /\ late_iterations' = IF stop_called \/ now - start_time >= RunBudget
                                THEN late_iterations + 1 ELSE late_iterations
          /\ consumed' = Append(consumed, [id |-> hb.id, ts |-> hb.ts,
                                           assigned |-> RoundComplete(scores, num_nodes)])
          /\ gui_calls' = IF RoundComplete(scores, num_nodes)
                          THEN NotifyHeartbeat \o NotifyAssignment(targets)
                          ELSE NotifyHeartbeat
          /\ gui_call_count' = CountCalls(gui_call_count, gui_calls')
          /\ IF RoundComplete(scores, num_nodes)
             THEN /\ execution_times' = IF Truthy(last_assignment_time)
                                        THEN Append(execution_times, now - last_assignment_time[1])
                                        ELSE execution_times
                  /\ last_assignment_time' = Some(now)
                  /\ replicated_memory' = Deliver(replicated_memory, targets, memory_state)
                  /\ replication_count' = IncrementCounts(replication_count, targets)
                  /\ assignments_done' = assignments_done + 1
                  /\ last_assign' = Some([scores |-> scores, targets |-> targets])
                  /\ coord_pc' = "cooldown"
                  /\ coord_wake' = now + Cooldown
             ELSE /\ coord_pc' = "top"
                  /\ coord_wake' = 0
                  /\ UNCHANGED <<execution_times, last_assignment_time, replicated_memory,
                                 replication_count, assignments_done, last_assign>>
    /\ UNCHANGED <<configVars, now, nodeVars, coord_running, start_time, stop_called, monVars>>

\* get(timeout=1) raises Empty: except Empty: continue
CoordinatorEmpty ==
    /\ coord_pc = "get"
    /\ heartbeat_queue = <<>>
    /\ now >= coord_wake
    /\ coord_pc' = "top"
    /\ coord_wake' = 0
    /\ UNCHANGED <<configVars, now, heartbeat_queue, nodeVars, replicated_memory,
                   coord_running, start_time, node_scores, total_heartbeats,
                   replication_count, latency_log, execution_times, last_assignment_time,
                   assignments_done, last_assign, late_iterations, consumed, gui_calls,
                   gui_call_count, stop_called, monVars>>

\* Mutant of CoordinatorCooldownEnd: the loop goes on without the sleep.
CooldownNotAwaited ==
    /\ coord_pc = "cooldown"
    /\ coord_pc' = "top"
    /\ coord_wake' = 0
    /\ UNCHANGED <<configVars, now, heartbeat_queue, nodeVars, replicated_memory,
                   coord_running, start_time, node_scores, total_heartbeats,
                   replication_count, latency_log, execution_times, last_assignment_time,
                   assignments_done, last_assign, late_iterations, consumed, gui_calls,
                   gui_call_count, stop_called, monVars>>

\* time.sleep(5) returns
CoordinatorCooldownEnd ==
    /\ coord_pc = "cooldown"
    /\ now >= coord_wake
    /\ coord_pc' = "top"
    /\ coord_wake' = 0
    /\ UNCHANGED <<configVars, now, heartbeat_queue, nodeVars, replicated_memory,
                   coord_running, start_time, node_scores, total_heartbeats,
                   replication_count, latency_log, execution_times, last_assignment_time,
                   assignments_done, last_assign, late_iterations, consumed, gui_calls,
                   gui_call_count, stop_called, monVars>>

CoordinatorStep ==
    \/ CoordinatorStart
    \/ CoordinatorLoopTest
    \/ CoordinatorReceive
    \/ CoordinatorEmpty
    \/ CoordinatorCooldownEnd

\* Coordinator.stop(), called from outside (once, while the thread is alive)
CoordinatorStop ==
    /\ ~stop_called
    /\ coord_pc # "done"
    /\ stop_called' = TRUE
    /\ coord_running' = FALSE
    /\ UNCHANGED <<configVars, now, heartbeat_queue, nodeVars, replicated_memory,
                   coord_pc, coord_wake, start_time, node_scores, total_heartbeats,
                   replication_count, latency_log, execution_times, last_assignment_time,
                   assignments_done, last_assign, late_iterations, consumed, gui_calls,
                   gui_call_count, monVars>>

\* ------------------------------------------------ main thread: monitor()
\* Thread.join() returns once the thread's run() has returned
NodeJoined(n) == node_pc[n] = "done"
\* Mutant of CoordinatorJoined: coordinator.join() left out.
CoordinatorJoinSkipped == TRUE
CoordinatorJoined == coord_pc = "done"

\* the root.after timer fires: if not coordinator.running: ... else: root.after(1000, monitor)
MonitorFire ==
    /\ mon_pc = "timer"
    /\ now >= mon_wake
    /\ IF ~coord_running
       THEN /\ mon_pc' = "stop"
            /\ mon_idx' = 1
            /\ mon_wake' = 0
       ELSE /\ mon_wake' = now + MonitorPeriod
            /\ UNCHANGED <<mon_pc, mon_idx>>
    /\ UNCHANGED <<configVars, now, heartbeat_queue, nodeVars, replicated_memory,
                   coordVars, stop_called, report, report_count, node_stops>>

\* for node in nodes.values(): node.stop()
MonitorStopNode ==
    /\ mon_pc = "stop"
    /\ IF mon_idx <= num_nodes
       THEN /\ node_running' = [node_running EXCEPT ![mon_idx] = FALSE]
            /\ node_stops' = [node_stops EXCEPT ![mon_idx] = @ + 1]
            /\ mon_idx' = mon_idx + 1
            /\ UNCHANGED mon_pc
       ELSE /\ mon_pc' = "join"
            /\ mon_idx' = 1
            /\ UNCHANGED <<node_running, node_stops>>
    /\ UNCHANGED <<configVars, now, heartbeat_queue, node_pc, node_wake, emitted,
                   silences, sent, late_emits, replicated_memory, coordVars, stop_called, mon_wake, report,
                   report_count>>

\* for node in nodes.values(): node.join()
MonitorJoinNode ==
    /\ mon_pc = "join"
    /\ IF mon_idx <= num_nodes
       THEN /\ NodeJoined(mon_idx)
            /\ mon_idx' = mon_idx + 1
            /\ UNCHANGED mon_pc
       ELSE /\ mon_pc' = "join_coordinator"
            /\ mon_idx' = 0
    /\ UNCHANGED <<configVars, now, heartbeat_queue, nodeVars, replicated_memory,
                   coordVars, stop_called, mon_wake, report, report_count, node_stops>>

\* coordinator.join()
MonitorJoinCoordinator ==
    /\ mon_pc = "join_coordinator"
    /\ CoordinatorJoined
    /\ mon_pc' = "report"
    /\ UNCHANGED <<configVars, now, heartbeat_queue, nodeVars, replicated_memory,
                   coordVars, stop_called, mon_wake, mon_idx, report, report_count,
                   node_stops>>

\* coordinator.report_metrics(); root.destroy()
MonitorReport ==
    /\ mon_pc = "report"
    /\ report' = Some(ReportMetrics(total_heartbeats, replication_count, latency_log,
                                    execution_times, assignments_done))
    /\ report_count' = report_count + 1
    /\ mon_pc' = "done"
    /\ UNCHANGED <<configVars, now, heartbeat_queue, nodeVars, replicated_memory,
                   coordVars, stop_called, mon_wake, mon_idx, node_stops>>

MonitorStep ==
    \/ MonitorFire
    \/ MonitorStopNode
    \/ MonitorJoinNode
    \/ MonitorJoinCoordinator
    \/ MonitorReport

\* ----------------------------------------------------------------- clock
\* a thread that can take a step now
NodeReady(n) ==
    \/ node_pc[n] \in {"top", "body"}
    \/ node_pc[n] = "sleep" /\ now >= node_wake[n]

CoordinatorReady ==
    \/ coord_pc \in {"init", "top"}
    \/ coord_pc = "get" /\ (heartbeat_queue # <<>> \/ now >= coord_wake)
    \/ coord_pc = "cooldown" /\ now >= coord_wake

MonitorReady ==
    \/ mon_pc = "timer" /\ now >= mon_wake
    \/ mon_pc \in {"stop", "report"}
    \/ mon_pc = "join" /\ (mon_idx > num_nodes \/ NodeJoined(mon_idx))
    \/ mon_pc = "join_coordinator" /\ CoordinatorJoined

\* a thread waiting for a later time
SomeoneSleeps ==
    \/ \E n \in Nodes : node_pc[n] = "sleep"
    \/ coord_pc \in {"get", "cooldown"}
    \/ mon_pc = "timer"

\* time passes while every live thread waits
Tick ==
    /\ \A n \in Nodes : ~NodeReady(n)
    /\ ~CoordinatorReady
    /\ ~MonitorReady
    /\ SomeoneSleeps
    /\ now' = now + 1
    /\ UNCHANGED <<configVars, heartbeat_queue, nodeVars, replicated_memory, coordVars,
                   stop_called, monVars>>

\* The program as __main__ runs it: nobody calls Coordinator.stop().
Next ==
    \/ \E n \in Nodes : NodeStep(n)
    \/ CoordinatorStep
    \/ MonitorStep
    \/ Tick

Spec == Init /\ [][Next]_vars

\* The same threads with Coordinator.stop() called from outside at any moment,
\* under the default replication factor.
InitStop ==
    /\ Init
    /\ num_nodes >= 1
    /\ replication_factor = DefaultRF

NextStop ==
    \/ Next
    \/ CoordinatorStop

SpecStop == InitStop /\ [][NextStop]_vars

\* Every started thread keeps being scheduled, timers fire and the clock advances;
\* nothing obliges anyone to call stop().
Fairness ==
    /\ \A n \in 1..MaxNodes : WF_vars(n \in Nodes /\ NodeStep(n))
    /\ WF_vars(CoordinatorStep)
    /\ WF_vars(MonitorStep)
    /\ WF_vars(Tick)

\* The fair runs of the threads with stop(), for the configurations of at most
\* LiveNodes nodes.
InitLive ==
    /\ InitStop
    /\ num_nodes <= LiveNodes

LiveSpec == InitLive /\ [][NextStop]_vars /\ Fairness

\* ================================================================ claims
Range(seq) == {seq[i] : i \in 1..Len(seq)}

\* the scores and the targets of the latest assignment
AssignedScores == last_assign[1].scores
AssignedTargets == last_assign[1].targets

\* ---------------------------------------------------------------- C1
\* C1: an assignment is performed exactly in a step that consumes a heartbeat
\* and leaves node_scores holding an entry for every known node id; while some
\* known node has not reported, assignments_done stays 0.
C1_AssignmentExactlyOnCompleteRound ==
    [][ /\ assignments_done' \in {assignments_done, assignments_done + 1}
        /\ (assignments_done' = assignments_done + 1)
             <=> (total_heartbeats' = total_heartbeats + 1 /\ Keys(node_scores') = Nodes)
        /\ (Keys(node_scores') # Nodes => assignments_done' = 0) ]_vars

\* three heartbeats consumed, all from nodes that leave another node unheard, and
\* no assignment yet
C1_Witness ==
    /\ total_heartbeats >= 3
    /\ Keys(node_scores) # Nodes
    /\ Keys(node_scores) # {}
    /\ assignments_done = 0

\* ---------------------------------------------------------------- C2
\* C2: the targets of every assignment are exactly replication_factor distinct
\* known node ids, ordered by score descending under the scores of that moment.
C2_TargetsExactlyRFDescending ==
    last_assign # Nothing =>
        /\ Len(AssignedTargets) = replication_factor
        /\ Range(AssignedTargets) \subseteq Nodes
        /\ \A i, j \in 1..Len(AssignedTargets) :
             i # j => AssignedTargets[i] # AssignedTargets[j]
        /\ \A i \in 1..(Len(AssignedTargets) - 1) :
             ScoreOf(AssignedScores, AssignedTargets[i])
               >= ScoreOf(AssignedScores, AssignedTargets[i + 1])

\* ---------------------------------------------------------------- C3
\* Scenario A: scores {A: 0.9, B: 0.7, C: 0.95, D: 0.4} (A..D are ids 1..4),
\* replication factor 2, for every order in which the four first heartbeats arrive.
ScenarioAScore(id) == CASE id = 1 -> 90 [] id = 2 -> 70 [] id = 3 -> 95 [] OTHER -> 40

ScenarioAOrders == {p \in [1..4 -> 1..4] : \A i, j \in 1..4 : i # j => p[i] # p[j]}

RECURSIVE ScenarioADict(_, _)
ScenarioADict(p, k) ==
    IF k = 0 THEN <<>> ELSE DictSet(ScenarioADict(p, k - 1), p[k], ScenarioAScore(p[k]))

ScenarioATargets == {Targets(ScenarioADict(p, 4), 2) : p \in ScenarioAOrders}

\* C3: no node left out of the targets of an assignment scores strictly higher
\* than a node in them, the targets are nodes that have a score, some node is
\* selected whenever the replication factor asks for one; Scenario A gives [C, A].
C3_TargetsAreHighestScoring ==
    /\ ScenarioATargets = {<<3, 1>>}
    /\ last_assign # Nothing =>
        /\ Range(AssignedTargets) \subseteq Keys(AssignedScores)
        /\ (replication_factor >= 1 /\ AssignedScores # <<>>) => AssignedTargets # <<>>
        /\ \A m \in Keys(AssignedScores) \ Range(AssignedTargets) :
             \A t \in Range(AssignedTargets) :
               ScoreOf(AssignedScores, m) <= ScoreOf(AssignedScores, t)

\* an assignment that left out a node scoring strictly lower than a selected one
C3_Witness ==
    /\ last_assign # Nothing
    /\ \E m \in Keys(AssignedScores) \ Range(AssignedTargets) :
         \E t \in Range(AssignedTargets) :
           ScoreOf(AssignedScores, m) < ScoreOf(AssignedScores, t)

\* ---------------------------------------------------------------- C4
\* the order the claim describes: score descending, node id ascending among equals
RECURSIVE InsertByScoreThenId(_, _)
InsertByScoreThenId(sorted, x) ==
    IF sorted = <<>> THEN <<x>>
    ELSE IF \/ Head(sorted)[2] > x[2]
            \/ Head(sorted)[2] = x[2] /\ Head(sorted)[1] < x[1]
         THEN <<Head(sorted)>> \o InsertByScoreThenId(Tail(sorted), x)
         ELSE <<x>> \o sorted

RECURSIVE SortByScoreThenId(_, _)
SortByScoreThenId(acc, items) ==
    IF items = <<>> THEN acc
    ELSE SortByScoreThenId(InsertByScoreThenId(acc, Head(items)), Tail(items))

TieBrokenTargets(items, rf) ==
    LET top == Slice(SortByScoreThenId(<<>>, items), rf)
    IN [i \in 1..Len(top) |-> top[i][1]]

\* C4: nodes with equal scores appear in targets by node id ascending, whatever
\* the order in which their first heartbeats were consumed.
C4_TiesBrokenByNodeId ==
    last_assign # Nothing =>
        AssignedTargets = TieBrokenTargets(AssignedScores, replication_factor)

\* ---------------------------------------------------------------- C5
\* C5: an assignment adds exactly 1 to replication_count of each of its targets
\* and nothing to the others; no other step changes replication_count.
C5_CountsFollowTargets ==
    [][ IF assignments_done' # assignments_done
        THEN \A n \in Nodes :
               replication_count'[n] =
                 replication_count[n] + (IF n \in Range(last_assign'[1].targets) THEN 1 ELSE 0)
        ELSE replication_count' = replication_count ]_vars

\* after two assignments one node has been selected twice and another never
C5_Witness ==
    /\ assignments_done >= 2
    /\ \E n, m \in Nodes : replication_count[n] >= 2 /\ replication_count[m] = 0

\* ---------------------------------------------------------------- C6
InvalidConfiguration == replication_factor > num_nodes \/ num_nodes <= 0

\* C6: under a replication factor above the node count, or a node count of zero
\* or less, no node thread and no Coordinator starts running, no heartbeat is
\* emitted and no assignment is performed.
C6_InvalidConfigurationNeverRuns ==
    InvalidConfiguration =>
        /\ coord_pc = "init"
        /\ \A n \in Nodes : node_pc[n] = "top"
        /\ emitted = 0
        /\ assignments_done = 0

\* ---------------------------------------------------------------- C7
\* C7: every latency sample is at least 0 and below the ceiling; a consumed
\* heartbeat whose latency is at or above the ceiling counts in total_heartbeats
\* and sets its node's score but adds no sample, any other consumed heartbeat
\* adds its latency, and no other step changes latency_log.
C7_LatencySamplesBelowCeiling ==
    [][ /\ \A i \in 1..Len(latency_log') :
             latency_log'[i] >= 0 /\ latency_log'[i] < LatencyCeiling
        /\ IF heartbeat_queue # <<>> /\ heartbeat_queue' = Tail(heartbeat_queue)
           THEN LET hb == Head(heartbeat_queue) IN
                /\ total_heartbeats' = total_heartbeats + 1
                /\ ScoreOf(node_scores', hb.id) = hb.score
                /\ latency_log' = IF now - hb.ts >= LatencyCeiling
                                  THEN latency_log
                                  ELSE Append(latency_log, now - hb.ts)
           ELSE /\ latency_log' = latency_log
                /\ total_heartbeats' = total_heartbeats ]_vars

\* a heartbeat has been consumed and filtered out, another one was sampled
C7_Witness ==
    /\ latency_log # <<>>
    /\ total_heartbeats > Len(latency_log)

\* ---------------------------------------------------------------- C8
ReporterStarted == mon_pc = "report" \/ report_count >= 1

C8_CoordinatorState ==
    <<coord_running, coord_pc, node_scores, total_heartbeats, replication_count,
      latency_log, execution_times, last_assignment_time, assignments_done>>

\* C8: report_metrics runs at most once, and has run once when monitor() is
\* through; when it starts the Coordinator's loop has exited and its thread has
\* ended, every node has been stopped exactly once and has ended; no coordinator
\* state changes from then on.
C8_ReportOnceAfterShutdown ==
    /\ [](report_count <= 1 /\ (mon_pc = "done" => report_count = 1))
    /\ [](ReporterStarted =>
            /\ coord_pc = "done"
            /\ ~coord_running
            /\ \A n \in Nodes : node_stops[n] = 1 /\ node_pc[n] = "done")
    /\ [][ReporterStarted => UNCHANGED C8_CoordinatorState]_vars

\* the report has been printed in a run in which stop() was called on the
\* Coordinator after it had consumed a heartbeat
C8_Witness ==
    /\ report_count = 1
    /\ stop_called
    /\ total_heartbeats >= 1
    /\ \A n \in Nodes : node_stops[n] = 1

\* ---------------------------------------------------------------- C9
BudgetElapsed == coord_pc # "init" /\ now - start_time >= RunBudget

\* C9: once stop() has been called or the run budget has elapsed the
\* Coordinator's loop exits, with running false, after consuming at most one more
\* heartbeat; every node whose stop() has been called ends.
C9_LoopsExitAfterStop ==
    /\ (stop_called \/ BudgetElapsed) ~> (coord_pc = "done" /\ ~coord_running)
    /\ [](late_iterations <= 1)
    /\ \A n \in 1..LiveNodes :
         (n \in Nodes /\ node_stops[n] >= 1) ~> (n \in Nodes /\ node_pc[n] = "done")

\* the loop has exited after stop() and one more heartbeat, with its cooldown
C9_Witness ==
    /\ stop_called
    /\ coord_pc = "done"
    /\ late_iterations = 1
    /\ assignments_done >= 1
    /\ heartbeat_queue # <<>>

\* --------------------------------------------------------------- C10
CurrentReport ==
    ReportMetrics(total_heartbeats, replication_count, latency_log, execution_times,
                  assignments_done)

\* C10: in every state report_metrics raises no ZeroDivisionError; it prints a
\* throughput exactly when there are inter-assignment intervals, and their sum is
\* then not zero; with no assignment done it prints none; the mean latency and
\* the mean interval are printed exactly when their lists are non-empty; what was
\* printed is the report of the final state.
C10_ReportNeverDividesByZero ==
    /\ CurrentReport.throughput[1] # "ZeroDivisionError"
    /\ CurrentReport.avg_latency[1] # "ZeroDivisionError"
    /\ CurrentReport.avg_exec[1] # "ZeroDivisionError"
    /\ CurrentReport.throughput[1] = "value"
         <=> (execution_times # <<>> /\ Sum(execution_times) # 0)
    /\ execution_times # <<>> => Sum(execution_times) # 0
    /\ assignments_done = 0 => CurrentReport.throughput = <<"none">>
    /\ CurrentReport.avg_latency[1] = "value" <=> latency_log # <<>>
    /\ CurrentReport.avg_exec[1] = "value" <=> execution_times # <<>>
    /\ report # Nothing => report[1] = CurrentReport

\* the report was printed after exactly one assignment: no interval, no throughput
C10_Witness ==
    /\ report # Nothing
    /\ assignments_done = 1
    /\ report[1].throughput = <<"none">>

\* C11: the scores value an observer received in a notification is not changed
\* by any heartbeat consumed afterwards: whatever the observer reads later
\* through the scores argument of a call it has received is what it read when
\* the call was made.
C11_SnapshotImmutable ==
    [][\A i \in 1..Len(gui_calls) :
         Deref(gui_calls[i].scores)' = Deref(gui_calls[i].scores)]_vars

\* the identity <<id, ts>> of the heartbeats waiting in the queue, and of those consumed
QueuedIds == [i \in 1..Len(heartbeat_queue) |-> <<heartbeat_queue[i].id, heartbeat_queue[i].ts>>]
ConsumedIds == [i \in 1..Len(consumed) |-> <<consumed[i].id, consumed[i].ts>>]

\* C12: the queue is FIFO with no loss and no duplication: the heartbeats
\* consumed so far followed by those still waiting are exactly the heartbeats
\* put, each once and in put order (so those of any one node are consumed in
\* the order the node emitted them, and a heartbeat leaves the queue only by
\* being consumed).
C12_ChannelFifoNoLossNoDuplication ==
    /\ sent = ConsumedIds \o QueuedIds
    /\ \A i, j \in 1..Len(sent) : i < j => sent[i] # sent[j]
    /\ \A i, j \in 1..Len(consumed) :
         (i < j /\ consumed[i].id = consumed[j].id) => consumed[i].ts < consumed[j].ts

\* two heartbeats of one node consumed around one of the other node, while a
\* further heartbeat waits
C12_Witness ==
    /\ heartbeat_queue # <<>>
    /\ \E i, j, k \in 1..Len(consumed) :
         /\ i < k /\ k < j
         /\ consumed[i].id = consumed[j].id
         /\ consumed[k].id # consumed[i].id

\* node n will not report again: its thread has ended and none of its
\* heartbeats waits in the queue
NeverReportsAgain(n) ==
    /\ node_pc[n] = "done"
    /\ \A i \in 1..Len(heartbeat_queue) : heartbeat_queue[i].id # n

\* the i-th consumed heartbeat came after the last one consumed from node n
AfterLastReportOf(n, i) == \A j \in i..Len(consumed) : consumed[j].id # n

\* C13 as stated: once a node has reported for the last time, the Coordinator
\* performs no further assignment: no heartbeat consumed after the node's last
\* one has led to an assignment.
C13_SilentNodeBlocksAssignments ==
    \A n \in Nodes :
        NeverReportsAgain(n) =>
            \A i \in 1..Len(consumed) : AfterLastReportOf(n, i) => ~consumed[i].assigned

\* C13 (amended): a node that has not reported yet keeps the system from
\* completing a round: while no heartbeat of some known node has been
\* consumed, no assignment has been performed, whatever the others report.
C13_UnreportedNodeBlocksAssignments ==
    (\E n \in Nodes : \A i \in 1..Len(consumed) : consumed[i].id # n) =>
        /\ assignments_done = 0
        /\ \A i \in 1..Len(consumed) : ~consumed[i].assigned

\* three heartbeats of one node consumed, none of the other, and no assignment
C13_Witness ==
    /\ num_nodes = 2
    /\ Len(consumed) >= 3
    /\ \E n \in Nodes : \A i \in 1..Len(consumed) : consumed[i].id # n
    /\ assignments_done = 0

\* ------------------------------------------- Node.receive_replication alone
\* payloads a caller may deliver
Payloads == {memory_state, "Payload A", "Payload B", "Payload C"}

\* node n's receive_replication(memory) is called
ReceiveReplication(n, memory) ==
    /\ replicated_memory' = [replicated_memory EXCEPT ![n] = receive_replication(@, memory)]
    /\ UNCHANGED <<configVars, now, heartbeat_queue, nodeVars, coordVars, stop_called,
                   monVars>>

NextReceive == \E n \in Nodes, memory \in Payloads : ReceiveReplication(n, memory)

\* Nodes that only ever receive payloads, any payload at any node in any order.
SpecReceive == Init /\ [][NextReceive]_vars

\* C14: receive_replication is last-write-wins and idempotent: after a delivery
\* of p the node holds exactly p whatever it held before and no other node
\* changes, and delivering p again leaves p.
C14_ReceiveLastWriteWinsIdempotent ==
    /\ [](\A n \in Nodes, p \in Payloads :
            LET once == receive_replication(replicated_memory[n], p)
            IN once = p /\ receive_replication(once, p) = once)
    /\ [][\A n \in Nodes, p \in Payloads :
            ReceiveReplication(n, p) =>
                /\ replicated_memory'[n] = p
                /\ \A m \in Nodes \ {n} : replicated_memory'[m] = replicated_memory[m]]_vars

\* both nodes hold a delivered payload, and not the same one
C14_Witness ==
    /\ num_nodes = 2
    /\ replicated_memory[1] \in Payloads
    /\ replicated_memory[2] \in Payloads
    /\ replicated_memory[1] # replicated_memory[2]

\* the step consumes a heartbeat: get() returns the head of the queue
ConsumesHeartbeat == Len(consumed') = Len(consumed) + 1

\* C15: node_scores[id] is the score of the heartbeat most recently consumed
\* from node id: consuming a heartbeat sets the entry of its node to its score
\* and leaves every other entry as it was, nothing else changes node_scores;
\* total_heartbeats is the number of heartbeats consumed so far.
C15_ScoresFollowConsumedHeartbeats ==
    /\ [](/\ total_heartbeats = Len(consumed)
          /\ Keys(node_scores) = {consumed[i].id : i \in 1..Len(consumed)}
          /\ Len(node_scores) = Cardinality(Keys(node_scores)))
    /\ [][IF ConsumesHeartbeat
          THEN LET hb == Head(heartbeat_queue)
               IN /\ Keys(node_scores') = Keys(node_scores) \cup {hb.id}
                  /\ ScoreOf(node_scores', hb.id) = hb.score
                  /\ \A id \in Keys(node_scores) \ {hb.id} :
                         ScoreOf(node_scores', id) = ScoreOf(node_scores, id)
                  /\ total_heartbeats' = total_heartbeats + 1
          ELSE /\ node_scores' = node_scores
               /\ total_heartbeats' = total_heartbeats]_vars

\* a second heartbeat of a node has been consumed while the other node has an entry
C15_Witness ==
    /\ Len(node_scores) = 2
    /\ \E i, j, k \in 1..Len(consumed) :
         /\ i < k /\ k < j
         /\ consumed[i].id = consumed[j].id
         /\ consumed[k].id # consumed[i].id
    /\ ScoreOf(node_scores, 1) # ScoreOf(node_scores, 2)

\* C16: every consumed heartbeat is followed by one gui_callback call with
\* targets None, and every assignment by one call with its targets, after the
\* None call of the same heartbeat; no other step calls gui_callback.  So the
\* calls without targets number total_heartbeats and those with targets
\* assignments_done.
C16_ObserverNotifiedPerHeartbeatAndAssignment ==
    /\ [](/\ gui_call_count.none = total_heartbeats
          /\ gui_call_count.targets = assignments_done)
    /\ [][IF ConsumesHeartbeat
          THEN LET heartbeat_call == [scores |-> ScoresRef, targets |-> Nothing]
               IN IF assignments_done' = assignments_done + 1
                  THEN /\ gui_calls' = <<heartbeat_call,
                                         [scores |-> ScoresRef,
                                          targets |-> Some(last_assign'[1].targets)]>>
                       /\ gui_call_count' = [none |-> gui_call_count.none + 1,
                                             targets |-> gui_call_count.targets + 1]
                  ELSE /\ gui_calls' = <<heartbeat_call>>
                       /\ gui_call_count' = [gui_call_count EXCEPT !.none = @ + 1]
          ELSE UNCHANGED <<gui_calls, gui_call_count>>]_vars

\* heartbeats consumed before the round was complete and two assignments since
C16_Witness ==
    /\ gui_call_count.targets >= 2
    /\ gui_call_count.none > gui_call_count.targets
    /\ Len(gui_calls) = 2
    /\ gui_calls[2].targets # Nothing
    /\ gui_calls[2].targets[1] # <<>>

\* heartbeats consumed when node_scores, with that heartbeat's entry, covered
\* every known node: the i-th one counts if every node has one among the first i
CoveredHeartbeats ==
    {i \in 1..Len(consumed) : {consumed[j].id : j \in 1..i} = Nodes}

\* C17: node_scores never loses a key, and once the first round is complete
\* every consumed heartbeat leads to another assignment followed by the
\* cooldown, whichever node it comes from: assignments_done is the number of
\* heartbeats consumed while node_scores covered every known node.
C17_EveryHeartbeatAfterFirstRoundAssigns ==
    /\ [](assignments_done = Cardinality(CoveredHeartbeats))
    /\ [][/\ Keys(node_scores) \subseteq Keys(node_scores')
          /\ (ConsumesHeartbeat /\ assignments_done >= 1) =>
                 /\ assignments_done' = assignments_done + 1
                 /\ coord_pc' = "cooldown"
                 /\ coord_wake' = now + Cooldown
          /\ (coord_pc = "cooldown" /\ now < coord_wake) =>
                 (coord_pc' = "cooldown" /\ ~ConsumesHeartbeat)]_vars

\* two heartbeats in a row from one node, each leading to an assignment
C17_Witness ==
    \E i \in 1..Len(consumed) - 1 :
        /\ consumed[i].id = consumed[i + 1].id
        /\ consumed[i].assigned
        /\ consumed[i + 1].assigned
        /\ num_nodes = 2
        /\ assignments_done >= 3

\* C18: execution_times holds assignments_done - 1 intervals once an
\* assignment was made and none before, last_assignment_time is set exactly
\* when an assignment was made, and every interval is at least the cooldown.
C18_IntervalsBetweenAssignments ==
    /\ Len(execution_times) = IF assignments_done >= 1 THEN assignments_done - 1 ELSE 0
    /\ (last_assignment_time # Nothing) <=> (assignments_done >= 1)
    /\ \A i \in 1..Len(execution_times) : execution_times[i] >= Cooldown

\* three assignments and the two intervals between them
C18_Witness ==
    /\ assignments_done = 3
    /\ Len(execution_times) = 2
    /\ last_assignment_time # Nothing
    /\ last_assignment_time[1] >= StartTime + 2 * Cooldown

\* C19: a node's replicated_memory is None or the Coordinator's memory_state,
\* and it is not None exactly when the node's replication_count is at least 1;
\* it changes only in a step in which the Coordinator performs an assignment,
\* never in a step of a Node thread.
C19_PayloadWrittenOnlyByAssignment ==
    /\ [](\A n \in Nodes :
            /\ replicated_memory[n] \in {None, memory_state}
            /\ (replicated_memory[n] # None) <=> (replication_count[n] >= 1))
    /\ [][(replicated_memory' # replicated_memory) =>
              /\ ConsumesHeartbeat
              /\ assignments_done' = assignments_done + 1
              /\ UNCHANGED <<node_pc, node_running, sent>>]_vars

\* one node was a target twice and holds the payload, the other never was
C19_Witness ==
    /\ num_nodes = 2
    /\ \E n, m \in Nodes :
         /\ replicated_memory[n] = memory_state
         /\ replication_count[n] >= 2
         /\ replicated_memory[m] = None
         /\ replication_count[m] = 0

\* C20: a node tests its running flag only at the top of a cycle.  After
\* stop() it puts at most one further heartbeat: a cycle under way is
\* completed (the heartbeat is put, the sleep taken), a node at the loop test
\* leaves the loop, and a node that has left the loop never runs again.
C20_AtMostOneHeartbeatAfterStop ==
    /\ [](\A n \in Nodes : late_emits[n] <= 1)
    /\ [][\A n \in Nodes :
            /\ node_pc[n] = "done" => node_pc'[n] = "done"
            /\ (~node_running[n] /\ node_pc[n] \in {"top", "sleep"}) =>
                   node_pc'[n] \in {node_pc[n], "done"}
            /\ (~node_running[n] /\ node_pc[n] = "body") =>
                   node_pc'[n] \in {"body", "sleep"}
            /\ late_emits'[n] # late_emits[n] =>
                   /\ node_pc[n] = "body"
                   /\ node_pc'[n] = "sleep"
                   /\ Len(heartbeat_queue') = Len(heartbeat_queue) + 1]_vars

\* a node has put a heartbeat after its stop() and has then left the loop
C20_Witness ==
    \E n \in Nodes :
        /\ node_stops[n] = 1
        /\ late_emits[n] = 1
        /\ node_pc[n] = "done"
        /\ \E i \in 1..Len(heartbeat_queue) : heartbeat_queue[i].id = n
====
